---- MODULE Spec2Model ----
(***************************************************************************)
(* Guto Paylink: the payment form (Form, src/src/components/faq.tsx from   *)
(* line 362), its status poller (pollUntilPaid) and the Hero that hosts    *)
(* the form (src/unnamed/part_000).                                        *)
(*                                                                         *)
(* JavaScript strings that the code inspects character by character        *)
(* (phone numbers, account names) are sequences of one-character strings.  *)
(* Status words are TLA+ strings.  Time is in milliseconds.                *)
(***************************************************************************)
EXTENDS Integers, Sequences, FiniteSets, TLC

\* ------------------------------------------------------------------------
\* Bounds of the model
\* ------------------------------------------------------------------------
\* /api/pay requests one form session may issue before the model stops retrying
MaxRequests == 2
\* ticks the poller harness records
MaxTicks == 4

\* ------------------------------------------------------------------------
\* Program constants
\* ------------------------------------------------------------------------
minAmount == 500
maxAmount == 50000000
FormIntervalMs == 3000
FormMaxIntervalMs == 7000
FormTimeoutMs == 180000
BackoffStepMs == 1000

\* ------------------------------------------------------------------------
\* JavaScript values
\* ------------------------------------------------------------------------
\* null / undefined results of string functions (not a digit string)
Null == <<"<null>">>
\* undefined status handed to onTick
Undefined == "<undefined>"
\* a field missing from a JSON body, and a field holding a non-string value
Absent == "<absent>"
NonString == "<number>"

Digits == {"0", "1", "2", "3", "4", "5", "6", "7", "8", "9"}

AllDigits(s) == \A i \in 1..Len(s) : s[i] \in Digits

IsKept(c) == c \in Digits \cup {"+"}

\* input.replace(/[^+\d]/g, "")
StripNonPhone(input) == SelectSeq(input, IsKept)

\* /^\+?256(7\d{8})$/ : the captured group, or Null when there is no match
MatchPlus(raw) ==
  LET body == IF Len(raw) > 0 /\ raw[1] = "+" THEN Tail(raw) ELSE raw
  IN IF /\ Len(body) = 12
        /\ AllDigits(body)
        /\ SubSeq(body, 1, 4) = <<"2", "5", "6", "7">>
     THEN SubSeq(body, 4, 12)
     ELSE Null

\* a local pattern that takes any digit after the 0: /^0(\d{9})$/
MatchLocalAnyLead(raw) ==
  IF Len(raw) = 10 /\ AllDigits(raw) /\ raw[1] = "0"
  THEN Tail(raw)
  ELSE Null

\* /^0(7\d{8})$/ : the captured group, or Null when there is no match
MatchLocal(raw) ==
  IF /\ Len(raw) = 10
     /\ AllDigits(raw)
     /\ SubSeq(raw, 1, 2) = <<"0", "7">>
  THEN SubSeq(raw, 2, 10)
  ELSE Null

\* a normalizer that answers in the "+256..." notation
normalizeUgMobileWithPlus(input) ==
  IF input = Null \/ Len(input) = 0 THEN Null
  ELSE LET raw == StripNonPhone(input)
       IN IF MatchPlus(raw) # Null THEN <<"+", "2", "5", "6">> \o MatchPlus(raw)
          ELSE IF MatchLocal(raw) # Null THEN <<"+", "2", "5", "6">> \o MatchLocal(raw)
          ELSE Null

normalizeUgMobile(input) ==
  IF input = Null \/ Len(input) = 0 THEN Null
  ELSE LET raw == StripNonPhone(input)
       IN IF MatchPlus(raw) # Null THEN <<"2", "5", "6">> \o MatchPlus(raw)
          ELSE IF MatchLocal(raw) # Null THEN <<"2", "5", "6">> \o MatchLocal(raw)
          ELSE Null

\* String.prototype.slice(from, to) for 0 <= from <= to
Slice(str, from, to) == SubSeq(str, from + 1, IF to < Len(str) THEN to ELSE Len(str))

\* carrierFromMsisdn: msisdn.slice(4, 6) looked up in the prefix table
carrierFromMsisdn(msisdn) ==
  IF msisdn = Null \/ Len(msisdn) = 0 THEN "Unknown"
  ELSE LET p == Slice(msisdn, 4, 6)
       IN IF p \in {<<"7", "6">>, <<"7", "7">>, <<"7", "8">>} THEN "MTN"
          ELSE IF p \in {<<"7", "0">>, <<"7", "5">>} THEN "Airtel"
          ELSE "Unknown"

\* String.prototype.trim on an account name (blank is the only white space used)
RECURSIVE TrimLeft(_)
TrimLeft(s) == IF Len(s) > 0 /\ s[1] = " " THEN TrimLeft(Tail(s)) ELSE s

RECURSIVE TrimRight(_)
TrimRight(s) ==
  IF Len(s) > 0 /\ s[Len(s)] = " " THEN TrimRight(SubSeq(s, 1, Len(s) - 1)) ELSE s

Trim(s) == TrimRight(TrimLeft(s))

\* String.prototype.toLowerCase on the status words the gateway uses
ToLower(s) ==
  CASE s = "PAID" -> "paid"
    [] s = "Paid" -> "paid"
    [] s = "pAiD" -> "paid"
    [] s = "SUCCESS" -> "success"
    [] s = "Failed" -> "failed"
    [] s = "REVERSED" -> "reversed"
    [] OTHER -> s

Min(a, b) == IF a < b THEN a ELSE b

\* ------------------------------------------------------------------------
\* Inputs the environment may supply
\* ------------------------------------------------------------------------
LocalPhone == <<"0", "7", "7", "2", "1", "2", "3", "4", "5", "6">>
PlusPhone == <<"+", "2", "5", "6", " ", "7", "0", "1", "2", "3", "4", "5", "6", "7">>
BadPhone == <<"0", "6", "1", "2", "3", "4", "5", "6", "7", "8">>

PhoneInputs == {LocalPhone, PlusPhone, BadPhone}
AmountInputs == {-1, 0, minAmount - 1, minAmount, maxAmount, maxAmount + 1}
NameInputs == {<<>>, <<" ">>, <<"A", "l">>}

\* ?a= of the page URL as the pages hand it to Hero (0 when absent)
InitialAmounts == {0, 100, 600, maxAmount + 1}
\* user.gutokey and user.phone of the profile (the [username] page supplies neither)
GutoKeys == {"", "gk1"}
RecipientMobiles == {Null, <<"0", "7", "6", "1", "1", "0", "2", "2", "0", "0">>, BadPhone}
TxRefs == {"uuid-a", "uuid-b"}

\* answers of POST /api/verify: transport failure, non-OK, unparseable
\* body, body without raw.contact.name, empty name, a name
VerifyResponses ==
  { [kind |-> "throw", name |-> Null],
    [kind |-> "nonok", name |-> Null],
    [kind |-> "badjson", name |-> Null],
    [kind |-> "ok", name |-> Null],
    [kind |-> "ok", name |-> <<>>],
    [kind |-> "ok", name |-> <<"B", "o">>] }

\* answers of POST /api/pay: transport failure, non-OK, unparseable body,
\* munopay.status missing / not success / success
PayResponses ==
  { [kind |-> "throw", status |-> Absent],
    [kind |-> "nonok", status |-> Absent],
    [kind |-> "badjson", status |-> Absent],
    [kind |-> "ok", status |-> Absent],
    [kind |-> "ok", status |-> "failed"],
    [kind |-> "ok", status |-> "SUCCESS"],
    [kind |-> "ok", status |-> "success"] }

\* no answer of /api/pay seen yet
NoResponse == [kind |-> "none", status |-> Absent]

\* a JSON body of the status endpoint: the four places a status may sit in
Body(d, t, a, s) ==
  [kind |-> "ok", code |-> 200, data |-> d, transaction |-> t, api |-> a, status |-> s]

Http(c) ==
  [kind |-> "nonok", code |-> c, data |-> Absent, transaction |-> Absent,
   api |-> Absent, status |-> Absent]

\* no status answer has been handed to a direct call of readStatus
NoBody ==
  [kind |-> "none", code |-> 0, data |-> Absent, transaction |-> Absent,
   api |-> Absent, status |-> Absent]

Thrown ==
  [kind |-> "throw", code |-> 0, data |-> Absent, transaction |-> Absent,
   api |-> Absent, status |-> Absent]

BadJson ==
  [kind |-> "badjson", code |-> 200, data |-> Absent, transaction |-> Absent,
   api |-> Absent, status |-> Absent]

StatusResponses ==
  { Http(404), Http(500), Thrown, BadJson,
    Body(Absent, Absent, Absent, Absent),
    Body(Absent, Absent, Absent, NonString),
    Body(Absent, Absent, Absent, "pending"),
    Body(Absent, Absent, "approved", Absent),
    Body(Absent, Absent, Absent, "processing"),
    Body(Absent, Absent, Absent, "paid"),
    Body(Absent, Absent, "PAID", Absent),
    Body("pending", Absent, Absent, "paid"),
    Body(Absent, "failed", Absent, Absent),
    Body(Absent, Absent, Absent, "cancelled"),
    Body(Absent, Absent, Absent, "REVERSED"),
    Body(Absent, Absent, Absent, "error") }

\* arguments of direct calls of normalizeUgMobile: the local form 07dddddddd
\* over two digit values, the same with the last digit missing or a digit
\* too many, with another digit after the 0, with a letter in the place of
\* a digit, and with a letter before or after the ten digits; the same
\* subscriber numbers written 2567dddddddd and +2567dddddddd, and the local
\* form with a plus sign or a blank between its digits
TailDigits == {"0", "5"}
LocalForms == {<<"0", "7">> \o t : t \in [1..8 -> TailDigits]}
\* local-form numbers with every pair of digits after the 07
CarrierForms ==
  {<<"0", "7", a, b, "1", "2", "3", "4", "5", "6">> : a \in Digits, b \in Digits}
NormInputs ==
  LocalForms
    \cup {<<>>}
    \cup {SubSeq(v, 1, 9) : v \in LocalForms}
    \cup {v \o <<"1">> : v \in LocalForms}
    \cup {<<"0", "6">> \o SubSeq(v, 3, 10) : v \in LocalForms}
    \cup {[v EXCEPT ![k] = "a"] : v \in LocalForms, k \in {2, 10}}
    \cup {v \o <<"a">> : v \in LocalForms}
    \cup {<<"x">> \o v : v \in LocalForms}
    \cup {<<"2", "5", "6">> \o Tail(v) : v \in LocalForms}
    \cup {<<"+", "2", "5", "6">> \o Tail(v) : v \in LocalForms}
    \cup {SubSeq(v, 1, 4) \o <<c>> \o SubSeq(v, 5, 10) :
             v \in LocalForms, c \in {"+", " "}}
    \cup CarrierForms

\* how long a status request may take, in ms
Latencies == {0, 100000}

\* parameters the poller harness calls pollUntilPaid with
IntervalChoices == {1000, 3000}
MaxIntervalChoices == {2000, 7000}
TimeoutChoices == {-1000, 0, 9000, 20000}

\* ------------------------------------------------------------------------
\* State
\* ------------------------------------------------------------------------
\* props Hero hands to Form; the Form's state (useState / useRef); where the
\* Form's asynchronous handler is suspended and the last toast; the network
\* as the Form sees it; pollUntilPaid: its caller, parameters, locals and
\* position; what the poller did (requests, ticks, sleeps); Hero's state
VARIABLES initialAmount, gutokey, recipientMobile, step, txRef, amount, phone, accountName, loading, waiting, txStatus, formPc, toast, payRequests, payInFlight, lastPay, verifyRequests, caller, intervalMs, maxIntervalMs, timeoutMs, pollPc, elapsed, backoff, aborted, loopStatus, pollResult, statusRequests, tickCount, ticks, sleeps, notFoundTicks, isSuccess, paid, normInput, normResult, carrierResult, fetchedName, linkHandle, linkAmount, linkResult, linkCalls, refInput, refResult, readBody, readResult, readVerdict, heroMounted, receiptPreviewUrl, receiptPngUrl, buildingRef, rasterJobs, effectCleanup, objectUrls, exported, paidEvents

propVars == <<initialAmount, gutokey, recipientMobile>>
formVars == <<step, txRef, amount, phone, accountName, loading, waiting, txStatus,
              formPc, toast>>
netVars == <<payRequests, payInFlight, lastPay, verifyRequests>>
pollParams == <<caller, intervalMs, maxIntervalMs, timeoutMs>>
pollVars == <<pollPc, elapsed, backoff, aborted, loopStatus, pollResult>>
pollLog == <<statusRequests, tickCount, ticks, sleeps, notFoundTicks>>
heroVars == <<isSuccess, paid>>
\* the argument and the result of a direct call of a pure function
normVars == <<normInput, normResult, carrierResult, fetchedName>>
linkVars == <<linkHandle, linkAmount, linkResult, linkCalls>>
refVars == <<refInput, refResult>>
readVars == <<readBody, readResult, readVerdict>>
callVars == <<normVars, linkVars, refVars, readVars>>
receiptVars == <<heroMounted, receiptPreviewUrl, receiptPngUrl, buildingRef,
                 rasterJobs, effectCleanup, objectUrls, exported, paidEvents>>

vars == <<propVars, formVars, netVars, pollParams, pollVars, pollLog, heroVars,
          callVars, receiptVars>>

\* the loop body's  let status  outside its scope
Unset == "<unset>"

NoReceipt == [tx |-> "<none>", amount |-> 0]

\* no direct call has been made
NotCalled == <<"<not-called>">>
NotCalledYet == "<not-called>"
\* a call that has not returned yet
Pending == <<"<pending>">>

NoNormCall ==
  /\ normInput = <<>>
  /\ normResult = NotCalled
  /\ carrierResult = NotCalledYet
  /\ fetchedName = NotCalled

NoLinkCall ==
  /\ linkHandle = <<>>
  /\ linkAmount = {}
  /\ linkResult = NotCalled
  /\ linkCalls = 0

NoRefCall ==
  /\ refInput = <<>>
  /\ refResult = NotCalled

NoReadCall ==
  /\ readBody = NoBody
  /\ readResult = NotCalledYet
  /\ readVerdict = NotCalledYet

NoCall == NoNormCall /\ NoLinkCall /\ NoRefCall /\ NoReadCall

\* receiptPngUrl and the URL captured by a cleanup: no object URL
NoUrl == 0

\* receiptPreviewUrl: null
NoPreview == "<no-preview>"

\* the last run of the receipt effect returned no cleanup
NoCleanup == -1

\* Hero after its first render: nothing of the receipt has been built
NoReceiptBuilt ==
  /\ heroMounted = TRUE
  /\ receiptPreviewUrl = NoPreview
  /\ receiptPngUrl = NoUrl
  /\ buildingRef = FALSE
  /\ rasterJobs = {}
  /\ effectCleanup = NoCleanup
  /\ objectUrls = <<>>
  /\ exported = <<>>
  /\ paidEvents = 0

\* Hero: startOnAmount={!(typeof initialAmount === "number" && initialAmount > 0)}
HeroStartOnAmount(ia) == ~(ia > 0)

\* startOnAmount ?? !initialAmount (Hero always supplies startOnAmount)
startAtAmount == HeroStartOnAmount(initialAmount)

fixedAmountMode == ~startAtAmount /\ initialAmount > 0

disabledAll == loading \/ waiting

\* a form that always opens on the amount step
InitialStepAlwaysAmount == "amount"

\* useState<Step>(startAtAmount ? "amount" : "phone")
InitialStep == IF startAtAmount THEN "amount" ELSE "phone"

\* the Form is rendered by Hero only while no success has been declared
FormMounted == ~isSuccess

PollIdle ==
  /\ pollPc = "idle"
  /\ elapsed = 0
  /\ backoff = 0
  /\ aborted = FALSE
  /\ loopStatus = Unset
  /\ pollResult = "none"
  /\ statusRequests = 0
  /\ tickCount = 0
  /\ ticks = <<>>
  /\ sleeps = <<>>
  /\ notFoundTicks = {}

Init ==
  /\ initialAmount \in InitialAmounts
  /\ gutokey \in GutoKeys
  /\ recipientMobile \in RecipientMobiles
  /\ txRef \in TxRefs
  /\ step = InitialStep
  /\ amount = initialAmount
  /\ phone = <<>>
  /\ accountName = <<>>
  /\ loading = FALSE
  /\ waiting = FALSE
  /\ txStatus = "pending"
  /\ formPc = "idle"
  /\ toast = "none"
  /\ payRequests = <<>>
  /\ payInFlight = 0
  /\ lastPay = NoResponse
  /\ verifyRequests = 0
  /\ caller = "Form"
  /\ intervalMs = FormIntervalMs
  /\ maxIntervalMs = FormMaxIntervalMs
  /\ timeoutMs = FormTimeoutMs
  /\ PollIdle
  /\ isSuccess = FALSE
  /\ paid = NoReceipt
  /\ NoReceiptBuilt
  /\ NoCall

\* ------------------------------------------------------------------------
\* Form: input fields
\* ------------------------------------------------------------------------
\* onChange of the amount input (rendered in the amount step, disabled in
\* fixed-amount mode and while busy)
SetAmount ==
  /\ FormMounted /\ step = "amount" /\ ~fixedAmountMode /\ ~disabledAll
  /\ \E a \in AmountInputs : amount' = a
  /\ UNCHANGED <<propVars, step, txRef, phone, accountName, loading, waiting,
                 txStatus, formPc, toast, netVars, pollParams, pollVars, pollLog,
                 heroVars, callVars, receiptVars>>

SetPhone ==
  /\ FormMounted /\ step = "phone" /\ ~disabledAll
  /\ \E p \in PhoneInputs : phone' = p
  /\ UNCHANGED <<propVars, step, txRef, amount, accountName, loading, waiting,
                 txStatus, formPc, toast, netVars, pollParams, pollVars, pollLog,
                 heroVars, callVars, receiptVars>>

SetAccountName ==
  /\ FormMounted /\ step = "account" /\ ~disabledAll
  /\ \E n \in NameInputs : accountName' = n
  /\ UNCHANGED <<propVars, step, txRef, amount, phone, loading, waiting,
                 txStatus, formPc, toast, netVars, pollParams, pollVars, pollLog,
                 heroVars, callVars, receiptVars>>

\* ------------------------------------------------------------------------
\* Form: submitAmount
\* ------------------------------------------------------------------------
\* a range check without the upper bound
AmountAcceptedNoMax(a) == ~(a = 0 \/ a < minAmount)

\* !(!amount || amount < minAmount || amount > maxAmount)
AmountAccepted(a) == ~(a = 0 \/ a < minAmount \/ a > maxAmount)

\* the step submitAmount leaves the form in: setStep("phone") at once in
\* fixed-amount mode, otherwise only for an accepted amount
StepAfterSubmitAmount(fixed, a, current) ==
  IF fixed THEN "phone"
  ELSE IF ~AmountAccepted(a) THEN current
  ELSE "phone"

submitAmount ==
  /\ FormMounted /\ step = "amount"
  /\ step' = StepAfterSubmitAmount(fixedAmountMode, amount, step)
  /\ toast' = IF ~fixedAmountMode /\ ~AmountAccepted(amount) THEN "amount-range" ELSE toast
  /\ UNCHANGED <<propVars, txRef, amount, phone, accountName, loading, waiting,
                 txStatus, formPc, netVars, pollParams, pollVars, pollLog, heroVars, callVars, receiptVars>>

\* ------------------------------------------------------------------------
\* Form: submitPhone
\* ------------------------------------------------------------------------
\* a guard that looks at waiting only
HandlerBusyWaitingOnly == waiting

\* if (loading || waiting) return;
HandlerBusy == loading \/ waiting

Truthy(str) == str # Null /\ Len(str) > 0

\* a lookup that asks the service whatever its argument is
LookupIssuedAlways(msisdn) == TRUE

\* fetchGutoName: const normalized = normalizeUgMobile(msisdn);
\* if (!normalized) return null;  before the request
LookupIssued(msisdn) == normalizeUgMobile(msisdn) # Null

\* a lookup that answers a placeholder name when the service gave none
fetchGutoNameResultPlaceholder(r) == IF r.kind = "ok" THEN r.name ELSE <<"?">>

\* fetchGutoName: the value it resolves to for an answer of /api/verify
\* (data?.raw?.contact?.name ?? null; null on non-OK and on any exception)
fetchGutoNameResult(r) == IF r.kind = "ok" THEN r.name ELSE Null

submitPhone ==
  /\ FormMounted /\ step = "phone"
  /\ IF HandlerBusy
     THEN UNCHANGED <<loading, formPc, toast, verifyRequests>>
     ELSE LET normalized == normalizeUgMobile(phone)
          IN IF normalized = Null
             THEN /\ toast' = "phone-invalid"
                  /\ UNCHANGED <<loading, formPc, verifyRequests>>
             ELSE /\ loading' = TRUE
                  /\ toast' = toast
                  \* fetchGutoName normalizes its argument again and asks
                  \* the service only when that succeeds
                  /\ IF ~LookupIssued(normalized)
                     THEN formPc' = "verify-null" /\ verifyRequests' = verifyRequests
                     ELSE formPc' = "verify" /\ verifyRequests' = verifyRequests + 1
  /\ UNCHANGED <<propVars, step, txRef, amount, phone, accountName, waiting,
                 txStatus, payRequests, payInFlight, lastPay, pollParams, pollVars,
                 pollLog, heroVars, callVars, receiptVars>>

\* submitPhone resumes after await fetchGutoName(normalized)
submitPhoneResumeWith(r) ==
  /\ formPc \in {"verify", "verify-null"}
  /\ LET fetched == IF formPc = "verify" THEN fetchGutoNameResult(r) ELSE Null
     IN /\ loading' = FALSE
        /\ IF Truthy(fetched)
           THEN accountName' = fetched /\ toast' = "found-name"
           ELSE accountName' = <<>> /\ toast' = "no-name"
        /\ step' = "account"
        /\ formPc' = "idle"
  /\ UNCHANGED <<propVars, txRef, amount, phone, waiting, txStatus, netVars,
                 pollParams, pollVars, pollLog, heroVars, callVars, receiptVars>>

submitPhoneResume == \E r \in VerifyResponses : submitPhoneResumeWith(r)

\* ------------------------------------------------------------------------
\* Form: submitAccount
\* ------------------------------------------------------------------------
\* a validation chain that forgets the payment key
ValidationErrorNoKey ==
  LET normalizedPayer == normalizeUgMobile(phone)
      normalizedRecipient ==
        IF Truthy(recipientMobile) THEN normalizeUgMobile(recipientMobile) ELSE Null
  IN IF normalizedPayer = Null THEN "phone-invalid"
     ELSE IF amount = 0 \/ amount < minAmount THEN "amount-min"
     ELSE IF Len(Trim(accountName)) = 0 THEN "name-missing"
     ELSE IF normalizedRecipient = Null THEN "recipient-missing"
     ELSE "none"

\* the validation chain of submitAccount: the toast of the first failed
\* check, "none" when all pass
ValidationError ==
  LET normalizedPayer == normalizeUgMobile(phone)
      normalizedRecipient ==
        IF Truthy(recipientMobile) THEN normalizeUgMobile(recipientMobile) ELSE Null
  IN IF normalizedPayer = Null THEN "phone-invalid"
     ELSE IF amount = 0 \/ amount < minAmount THEN "amount-min"
     ELSE IF Len(Trim(accountName)) = 0 THEN "name-missing"
     ELSE IF gutokey = "" THEN "gutokey-missing"
     ELSE IF normalizedRecipient = Null THEN "recipient-missing"
     ELSE "none"

\* a reference generated anew for every request after the first
TxFreshPerRequest(ref, n) == IF n = 0 THEN ref ELSE "uuid-fresh"

\* const tx = txRef.current, for the n-th request of the session
TxOfRequest(ref, n) == ref

\* the body of POST /api/pay
Payload ==
  [mobile |-> normalizeUgMobile(phone),
   amount |-> amount,
   gutokey |-> gutokey,
   recipient |-> normalizeUgMobile(recipientMobile),
   tx |-> TxOfRequest(txRef, Len(payRequests))]

submitAccount ==
  /\ FormMounted /\ step = "account"
  /\ HandlerBusy \/ ValidationError # "none" \/ Len(payRequests) < MaxRequests
  /\ IF HandlerBusy
     THEN UNCHANGED <<loading, formPc, toast, payRequests, payInFlight>>
     ELSE IF ValidationError # "none"
          THEN /\ toast' = ValidationError
               /\ UNCHANGED <<loading, formPc, payRequests, payInFlight>>
          ELSE /\ loading' = TRUE
               /\ payRequests' = Append(payRequests, Payload)
               /\ payInFlight' = payInFlight + 1
               /\ formPc' = "pay"
               /\ toast' = toast
  /\ UNCHANGED <<propVars, step, txRef, amount, phone, accountName, waiting,
                 txStatus, lastPay, verifyRequests, pollParams, pollVars, pollLog,
                 heroVars, callVars, receiptVars>>

\* an acceptance test that looks at the transport status only
PayAcceptedAnyOk(r) == r.kind = "ok"

\* String(munopay?.status ?? "unknown").toLowerCase() === "success" on an OK,
\* parseable answer; everything else throws into the catch block
PayAccepted(r) ==
  /\ r.kind = "ok"
  /\ ToLower(IF r.status = Absent THEN "unknown" ELSE r.status) = "success"

\* pollUntilPaid is entered: start = Date.now(), backoff = intervalMs
PollEnter(i, m, t) ==
  /\ intervalMs' = i
  /\ maxIntervalMs' = m
  /\ timeoutMs' = t
  /\ pollPc' = "head"
  /\ elapsed' = 0
  /\ backoff' = i
  /\ aborted' = FALSE
  /\ loopStatus' = Unset
  /\ pollResult' = "none"
  /\ statusRequests' = 0
  /\ tickCount' = 0
  /\ ticks' = <<>>
  /\ sleeps' = <<>>
  /\ notFoundTicks' = {}

\* a handler that stops the spinner as soon as the gateway has accepted
LoadingAfterAcceptCleared(l) == FALSE

\* between setLoading(true) and the finally block nothing writes loading
LoadingAfterAccept(l) == l

\* submitAccount resumes after await fetch("/api/pay")
submitAccountResume ==
  /\ formPc = "pay" /\ payInFlight > 0
  /\ \E r \in PayResponses :
       /\ payInFlight' = payInFlight - 1
       /\ lastPay' = r
       /\ IF PayAccepted(r)
          THEN /\ waiting' = TRUE
               /\ txStatus' = "pending"
               /\ toast' = "request-sent"
               /\ loading' = LoadingAfterAccept(loading)
               /\ formPc' = "polling"
               /\ PollEnter(FormIntervalMs, FormMaxIntervalMs, FormTimeoutMs)
          ELSE \* catch: toast.error; finally: setLoading(false)
               /\ toast' = "pay-error"
               /\ loading' = FALSE
               /\ formPc' = "idle"
               /\ UNCHANGED <<waiting, txStatus, intervalMs, maxIntervalMs,
                              timeoutMs, pollVars, pollLog>>
  /\ UNCHANGED <<propVars, step, txRef, amount, phone, accountName, payRequests,
                 verifyRequests, caller, heroVars, callVars, receiptVars>>

\* ------------------------------------------------------------------------
\* pollUntilPaid
\* ------------------------------------------------------------------------
\* a read that prefers the top-level status field
FirstStatusFieldTopLevelFirst(r) ==
  IF r.status # Absent THEN r.status
  ELSE IF r.api # Absent THEN r.api
  ELSE IF r.transaction # Absent THEN r.transaction
  ELSE r.data

\* js?.data?.api_status ?? js?.transaction?.api_status ?? js?.api_status ?? js?.status
FirstStatusField(r) ==
  IF r.data # Absent THEN r.data
  ELSE IF r.transaction # Absent THEN r.transaction
  ELSE IF r.api # Absent THEN r.api
  ELSE r.status

\* a readStatus without the special case for HTTP 404
readStatusNoNotFoundCase(r) ==
  IF r.kind = "nonok" \/ r.kind = "badjson" THEN Undefined
  ELSE LET s == FirstStatusField(r)
       IN IF s # Absent /\ s # NonString THEN ToLower(s) ELSE Undefined

\* readStatus for an answer that did not throw
readStatus(r) ==
  IF r.kind = "nonok"
  THEN IF r.code = 404 THEN "pending" ELSE Undefined
  ELSE IF r.kind = "badjson" THEN Undefined
  ELSE LET s == FirstStatusField(r)
       IN IF s # Absent /\ s # NonString THEN ToLower(s) ELSE Undefined

\* a catch block that reports a thrown request as an error status
StatusOfThrowIsError(r) == IF r.kind = "throw" THEN "error" ELSE readStatus(r)

\* try { status = await readStatus() } catch { status = undefined }
StatusOf(r) == IF r.kind = "throw" THEN Undefined ELSE readStatus(r)

\* a failure set without "reversed"
FailureStatusesNoReversed == {"failed", "cancelled", "error"}

FailureStatuses == {"failed", "cancelled", "reversed", "error"}

\* a loop body for which "paid" is just another status
VerdictPaidNotTerminal(status) ==
  IF status # Undefined /\ status # "" /\ status \in FailureStatuses THEN "failed"
  ELSE "continue"

\* what the loop body does with a status after the tick
Verdict(status) ==
  IF status = "paid" THEN "paid"
  ELSE IF status # Undefined /\ status # "" /\ status \in FailureStatuses THEN "failed"
  ELSE "continue"

PollReturn(result) ==
  /\ pollPc' = "returned"
  /\ pollResult' = result

\* a loop that still runs when the deadline has just been reached
WithinTimeoutInclusive(e, t) == e <= t

\* while (Date.now() - start < timeoutMs)
WithinTimeout(e, t) == e < t

\* a loop head that never looks at the signal
CancelledNever(a) == FALSE

\* if (signal?.aborted) return "timeout"
Cancelled(a) == a

\* the loop condition and the cancel test at the head of the body; when both
\* let it pass, fetch(statusUrl) is issued
PollHead ==
  /\ pollPc = "head"
  /\ IF WithinTimeout(elapsed, timeoutMs) /\ ~Cancelled(aborted)
     THEN /\ pollPc' = "fetch"
          /\ pollResult' = pollResult
          /\ statusRequests' = statusRequests + 1
     ELSE /\ PollReturn("timeout")
          /\ statusRequests' = statusRequests
  /\ UNCHANGED <<propVars, formVars, netVars, pollParams, elapsed, backoff, aborted,
                 loopStatus, tickCount, ticks, sleeps, notFoundTicks, heroVars, callVars, receiptVars>>

\* a loop that calls onTick only when the read gave a status
OnTickOnlyWithStatus(status) ==
  /\ tickCount' = IF status # Undefined THEN tickCount + 1 ELSE tickCount
  /\ IF caller = "Form"
     THEN /\ txStatus' = IF status # Undefined /\ status # "" THEN status ELSE txStatus
          /\ ticks' = ticks
     ELSE /\ txStatus' = txStatus
          /\ ticks' = IF Len(ticks) < MaxTicks /\ status # Undefined
                      THEN Append(ticks, status)
                      ELSE ticks

\* onTick?.(status): the Form's callback is  if (s) setTxStatus(s) ; the
\* harness records the tick
OnTick(status) ==
  /\ tickCount' = tickCount + 1
  /\ IF caller = "Form"
     THEN /\ txStatus' = IF status # Undefined /\ status # "" THEN status ELSE txStatus
          /\ ticks' = ticks
     ELSE /\ txStatus' = txStatus
          /\ ticks' = IF Len(ticks) < MaxTicks THEN Append(ticks, status) ELSE ticks

\* the status request settles with answer r after d ms; the rest of the loop
\* body up to the return or to the start of the sleep
PollFetchWith(r, d) ==
  /\ pollPc = "fetch"
  \* an abort while the request is in flight rejects the fetch
  /\ aborted => r = Thrown
  /\ elapsed' = elapsed + d
  /\ OnTick(StatusOf(r))
  \* the harness notes which of the ticks it records answered HTTP 404
  /\ notFoundTicks' = IF caller = "Harness" /\ Len(ticks) < MaxTicks /\ r = Http(404)
                       THEN notFoundTicks \cup {Len(ticks) + 1}
                       ELSE notFoundTicks
  /\ IF Verdict(StatusOf(r)) = "continue"
     THEN pollPc' = "sleep" /\ pollResult' = pollResult /\ loopStatus' = StatusOf(r)
     ELSE PollReturn(Verdict(StatusOf(r))) /\ loopStatus' = Unset
  /\ UNCHANGED <<propVars, step, txRef, amount, phone, accountName, loading, waiting,
                 formPc, toast, netVars, pollParams, backoff, aborted,
                 statusRequests, sleeps, heroVars, callVars, receiptVars>>

PollFetchReturns == \E r \in StatusResponses, d \in Latencies : PollFetchWith(r, d)

\* await new Promise((r) => setTimeout(r, backoff));
\* backoff = Math.min(backoff + 1000, maxIntervalMs);
NextBackoffUncapped(b, m) == b + BackoffStepMs

\* backoff = Math.min(backoff + 1000, maxIntervalMs)
NextBackoff(b, m) == Min(b + BackoffStepMs, m)

PollSleepEnds ==
  /\ pollPc = "sleep"
  /\ elapsed' = elapsed + backoff
  /\ sleeps' = Append(sleeps, backoff)
  /\ backoff' = NextBackoff(backoff, maxIntervalMs)
  \* the body ends and with it the scope of  let status
  /\ loopStatus' = Unset
  /\ pollPc' = "head"
  /\ UNCHANGED <<propVars, formVars, netVars, pollParams, aborted, pollResult,
                 statusRequests, tickCount, ticks, notFoundTicks, heroVars, callVars, receiptVars>>

\* the holder of the AbortController aborts it (the Form never does)
Abort ==
  /\ caller = "Harness"
  /\ pollPc \in {"head", "fetch", "sleep"}
  /\ ~aborted
  /\ aborted' = TRUE
  /\ UNCHANGED <<propVars, formVars, netVars, pollParams, pollPc, elapsed, backoff,
                 loopStatus, pollResult, pollLog, heroVars, callVars, receiptVars>>

\* ------------------------------------------------------------------------
\* Form: submitAccount after the poll, and Hero's callbacks
\* ------------------------------------------------------------------------
\* a Form that treats everything but a failure as success
CallbacksInvokedUnlessFailed(result) ==
  IF result # "failed" THEN {"onSuccessChange"} ELSE {}

\* the callbacks of its props that submitAccount invokes for a poll result.
\* FormProps declares no onPaid and the Form never calls one, although Hero
\* passes onPaid={(info) => { setIsSuccess(true); setPaid(info); }}
CallbacksInvoked(result) == IF result = "paid" THEN {"onSuccessChange"} ELSE {}

\* the PaidReceipt an onPaid call would carry
ReceiptOf(tx, a) == [tx |-> tx, amount |-> a]

\* a handler that sends the payer back to the phone step unless paid
StepAfterSubmissionRestart(result, current) ==
  IF result = "paid" THEN current ELSE "phone"

\* submitAccount never calls setStep
StepAfterSubmission(result, current) == current

WaitingAfterPollPaidOnly(result) == result # "paid"

\* setWaiting(false) follows the poll whatever it returned
WaitingAfterPoll(result) == FALSE

submitAccountAfterPoll ==
  /\ formPc = "polling" /\ pollPc = "returned"
  /\ waiting' = WaitingAfterPoll(pollResult)
  /\ toast' = IF pollResult = "paid" THEN "confirmed"
              ELSE IF pollResult = "failed" THEN "failed"
              ELSE "timeout"
  \* Hero: onSuccessChange={setIsSuccess}; onPaid sets isSuccess and paid
  /\ isSuccess' = IF CallbacksInvoked(pollResult) # {} THEN TRUE ELSE isSuccess
  /\ paid' = IF "onPaid" \in CallbacksInvoked(pollResult)
             THEN ReceiptOf(txRef, amount)
             ELSE paid
  \* finally: setLoading(false)
  /\ loading' = FALSE
  /\ formPc' = "idle"
  /\ pollPc' = "idle"
  /\ step' = StepAfterSubmission(pollResult, step)
  /\ UNCHANGED <<propVars, txRef, amount, phone, accountName, txStatus,
                 netVars, pollParams, elapsed, backoff, aborted, loopStatus,
                 pollResult, pollLog, callVars, receiptVars>>

\* ------------------------------------------------------------------------
\* Specifications
\* ------------------------------------------------------------------------
Next ==
  \/ SetAmount
  \/ SetPhone
  \/ SetAccountName
  \/ submitAmount
  \/ submitPhone
  \/ submitPhoneResume
  \/ submitAccount
  \/ submitAccountResume
  \/ PollHead
  \/ PollFetchReturns
  \/ PollSleepEnds
  \/ submitAccountAfterPoll

Spec == Init /\ [][Next]_vars

\* pollUntilPaid on its own, called by a harness that records the ticks and
\* may abort the signal
PollInit ==
  /\ initialAmount = 0
  /\ gutokey = ""
  /\ recipientMobile = Null
  /\ txRef = "uuid-a"
  /\ step = "amount"
  /\ amount = 0
  /\ phone = <<>>
  /\ accountName = <<>>
  /\ loading = FALSE
  /\ waiting = FALSE
  /\ txStatus = "pending"
  /\ formPc = "idle"
  /\ toast = "none"
  /\ payRequests = <<>>
  /\ payInFlight = 0
  /\ lastPay = NoResponse
  /\ verifyRequests = 0
  /\ caller = "Harness"
  /\ intervalMs \in IntervalChoices
  /\ maxIntervalMs \in MaxIntervalChoices
  /\ timeoutMs \in TimeoutChoices
  /\ pollPc = "head"
  /\ elapsed = 0
  /\ backoff = intervalMs
  /\ aborted = FALSE
  /\ loopStatus = Unset
  /\ pollResult = "none"
  /\ statusRequests = 0
  /\ tickCount = 0
  /\ ticks = <<>>
  /\ sleeps = <<>>
  /\ notFoundTicks = {}
  /\ isSuccess = FALSE
  /\ paid = NoReceipt
  /\ NoReceiptBuilt
  /\ NoCall

PollNext ==
  \/ PollHead
  \/ PollFetchReturns
  \/ PollSleepEnds
  \/ Abort

PollSpec == PollInit /\ [][PollNext]_vars

\* the poller with the progress its own code guarantees: the loop head runs
\* and the timer of the sleep fires; whether and when the status endpoint
\* answers (the fetch carries no timeout) and whether the harness aborts is
\* left to the environment
PollLiveSpec ==
  /\ PollInit
  /\ [][PollNext]_vars
  /\ WF_vars(PollHead)
  /\ WF_vars(PollSleepEnds)

\* the poller when, in addition, every status request completes
PollAnsweredSpec ==
  /\ PollInit
  /\ [][PollNext]_vars
  /\ WF_vars(PollHead)
  /\ WF_vars(PollSleepEnds)
  /\ WF_vars(PollFetchReturns)

\* no Form is running: the state around a direct call of a helper function
Quiescent ==
  /\ initialAmount = 0
  /\ gutokey = ""
  /\ recipientMobile = Null
  /\ txRef = "uuid-a"
  /\ step = "amount"
  /\ amount = 0
  /\ phone = <<>>
  /\ accountName = <<>>
  /\ loading = FALSE
  /\ waiting = FALSE
  /\ txStatus = "pending"
  /\ formPc = "idle"
  /\ toast = "none"
  /\ payRequests = <<>>
  /\ payInFlight = 0
  /\ lastPay = NoResponse
  /\ verifyRequests = 0
  /\ caller = "Harness"
  /\ intervalMs = FormIntervalMs
  /\ maxIntervalMs = FormMaxIntervalMs
  /\ timeoutMs = FormTimeoutMs
  /\ PollIdle
  /\ isSuccess = FALSE
  /\ paid = NoReceipt
  /\ NoReceiptBuilt

\* normalizeUgMobile, carrierFromMsisdn and fetchGutoName called on their
\* own: the argument is drawn from NormInputs, a call stores what the
\* function returns
NormInit ==
  /\ Quiescent
  /\ normInput \in NormInputs
  /\ normResult = NotCalled
  /\ carrierResult = NotCalledYet
  /\ fetchedName = NotCalled
  /\ NoLinkCall
  /\ NoRefCall
  /\ NoReadCall

CallNormalize ==
  /\ normResult = NotCalled
  /\ normResult' = normalizeUgMobile(normInput)
  /\ UNCHANGED <<propVars, formVars, netVars, pollParams, pollVars, pollLog, heroVars,
                 normInput, carrierResult, fetchedName, linkVars, refVars, readVars,
                 receiptVars>>

\* the function is called again on the number it returned
CallNormalizeAgain ==
  /\ normResult # NotCalled /\ normResult # Null
  /\ normInput' = normResult
  /\ normResult' = normalizeUgMobile(normResult)
  /\ UNCHANGED <<propVars, formVars, netVars, pollParams, pollVars, pollLog, heroVars,
                 carrierResult, fetchedName, linkVars, refVars, readVars,
                 receiptVars>>

\* setCarrier(carrierFromMsisdn(normalizeUgMobile(phone))): the hint for the
\* number the normalizer returned
CallCarrier ==
  /\ normResult # NotCalled
  /\ carrierResult = NotCalledYet
  /\ carrierResult' = carrierFromMsisdn(normResult)
  /\ UNCHANGED <<propVars, formVars, netVars, pollParams, pollVars, pollLog, heroVars,
                 normInput, normResult, fetchedName, linkVars, refVars, readVars,
                 receiptVars>>

\* fetchGutoName(msisdn) is called with the argument as it is
CallFetchGutoName ==
  /\ fetchedName = NotCalled
  /\ IF LookupIssued(normInput)
     THEN fetchedName' = Pending /\ verifyRequests' = verifyRequests + 1
     ELSE fetchedName' = Null /\ verifyRequests' = verifyRequests
  /\ UNCHANGED <<propVars, formVars, payRequests, payInFlight, lastPay, pollParams,
                 pollVars, pollLog, heroVars, normInput, normResult, carrierResult,
                 linkVars, refVars, readVars,
                 receiptVars>>

\* the request of that call settles with answer r
FetchGutoNameReturnsWith(r) ==
  /\ fetchedName = Pending
  /\ fetchedName' = fetchGutoNameResult(r)
  /\ UNCHANGED <<propVars, formVars, netVars, pollParams, pollVars, pollLog, heroVars,
                 normInput, normResult, carrierResult, linkVars, refVars, readVars,
                 receiptVars>>

FetchGutoNameReturns == \E r \in VerifyResponses : FetchGutoNameReturnsWith(r)

NormNext ==
  \/ CallNormalize
  \/ CallNormalizeAgain
  \/ CallCarrier
  \/ CallFetchGutoName
  \/ FetchGutoNameReturns

NormSpec == NormInit /\ [][NormNext]_vars

\* ------------------------------------------------------------------------
\* Hero helpers called on their own (unnamed/part_000)
\* ------------------------------------------------------------------------
MaxHandleLen == 3

MaxLinkCalls == 2

\* characters of a handle as the pages build it: an optional @ in front of
\* letters, digits, dots, underscores and dashes
HandleChars == {"@", "h", "."}

HandleInputs == UNION {[1..n -> HandleChars] : n \in 0..MaxHandleLen}

\* the optional amount argument: {} is an omitted (undefined) amount
LinkAmounts == {{}, {-5}, {0}, {1}, {1500}}

DigitChars == <<"0", "1", "2", "3", "4", "5", "6", "7", "8", "9">>

\* String(amount) of a non-negative integer
RECURSIVE ToDecimal(_)
ToDecimal(n) ==
  IF n < 10 THEN <<DigitChars[n + 1]>>
  ELSE ToDecimal(n \div 10) \o <<DigitChars[(n % 10) + 1]>>

CleanHandleAsIs(handle) == handle

\* handle.replace(/^@/, ""): one leading @ is removed
CleanHandle(handle) ==
  IF Len(handle) > 0 /\ Head(handle) = "@" THEN Tail(handle) ELSE handle

\* the path of the serialized URL: a space is percent-encoded, the
\* characters of a handle are kept as they are
RECURSIVE UrlPath(_)
UrlPath(str) ==
  IF str = <<>> THEN <<>>
  ELSE (IF Head(str) = " " THEN <<"%", "2", "0">> ELSE <<Head(str)>>)
         \o UrlPath(Tail(str))

PayBase ==
  <<"h", "t", "t", "p", "s", ":", "/", "/", "p", "a", "y", ".",
    "g", "u", "t", "o", ".", "a", "p", "p", "/", "@">>

\* amount && amount > 0
HasAmountParam(amt) == \E n \in amt : n # 0 /\ n > 0

buildPaylink(handle, amt) ==
  PayBase \o UrlPath(CleanHandle(handle))
    \o (IF HasAmountParam(amt)
        THEN <<"?", "a", "=">> \o ToDecimal(CHOOSE n \in amt : TRUE)
        ELSE <<>>)

LinkInit ==
  /\ Quiescent
  /\ NoNormCall
  /\ NoRefCall
  /\ NoReadCall
  /\ linkHandle \in HandleInputs
  /\ linkAmount \in LinkAmounts
  /\ linkResult = NotCalled
  /\ linkCalls = 0

CallBuildPaylink ==
  /\ linkCalls < MaxLinkCalls
  /\ linkResult' = buildPaylink(linkHandle, linkAmount)
  /\ linkCalls' = linkCalls + 1
  /\ UNCHANGED <<propVars, formVars, netVars, pollParams, pollVars, pollLog,
                 heroVars, normVars, linkHandle, linkAmount, refVars,
                 readVars, receiptVars>>

LinkNext == CallBuildPaylink

LinkSpec == LinkInit /\ [][LinkNext]_vars

MaxRefLen == 20

\* the limit the callers pass, which is also the default of max
TruncateLimit == 15

\* the one-character ellipsis
Ellipsis == "..."

\* a reference of n characters
RefText(n) == [i \in 1..n |-> DigitChars[(i % 10) + 1]]

\* a missing reference, the empty one, and references of every length up
\* to MaxRefLen
RefInputs ==
  {Null} \cup {SubSeq(RefText(MaxRefLen), i, j) :
                 i \in 1..MaxRefLen, j \in 0..MaxRefLen}

truncateRefInclusive(str, max) ==
  IF str = Null \/ str = <<>> THEN <<>>
  ELSE IF Len(str) >= max THEN Slice(str, 0, max) \o <<Ellipsis>> ELSE str

truncateRef(str, max) ==
  IF str = Null \/ str = <<>> THEN <<>>
  ELSE IF Len(str) > max THEN Slice(str, 0, max) \o <<Ellipsis>> ELSE str

RefInit ==
  /\ Quiescent
  /\ NoNormCall
  /\ NoLinkCall
  /\ NoReadCall
  /\ refInput \in RefInputs
  /\ refResult = NotCalled

CallTruncateRef ==
  /\ refResult = NotCalled
  /\ refResult' = truncateRef(refInput, TruncateLimit)
  /\ UNCHANGED <<propVars, formVars, netVars, pollParams, pollVars, pollLog,
                 heroVars, normVars, linkVars, refInput, readVars,
                 receiptVars>>

RefNext == CallTruncateRef

RefSpec == RefInit /\ [][RefNext]_vars

\* what one of the four status fields of a body may hold: nothing, a value
\* that is not a string, the empty string, and status words in several
\* letter cases
StatusFieldValues == {Absent, NonString, "", "pending", "PAID", "pAiD", "failed"}

\* answers handed to a direct call of readStatus
ReadInputs ==
  {Body(d, t, a, st) : d \in StatusFieldValues, t \in StatusFieldValues,
                       a \in StatusFieldValues, st \in StatusFieldValues}
    \cup {Http(404), Http(500), BadJson, Thrown}

ReadInit ==
  /\ Quiescent
  /\ NoNormCall
  /\ NoLinkCall
  /\ NoRefCall
  /\ readBody \in ReadInputs
  /\ readResult = NotCalledYet
  /\ readVerdict = NotCalledYet

\* one pass of the loop body on the answer: the status read and what the
\* loop does with it
CallReadStatus ==
  /\ readResult = NotCalledYet
  /\ readResult' = StatusOf(readBody)
  /\ readVerdict' = Verdict(StatusOf(readBody))
  /\ UNCHANGED <<propVars, formVars, netVars, pollParams, pollVars, pollLog,
                 heroVars, normVars, linkVars, refVars, readBody, receiptVars>>

ReadNext == CallReadStatus

ReadSpec == ReadInit /\ [][ReadNext]_vars

\* ------------------------------------------------------------------------
\* Hero: the receipt effect and the receipt actions (unnamed/part_000)
\* ------------------------------------------------------------------------
MaxPaidEvents == 3

MaxExports == 1

\* the PaidReceipt records the child hands to onPaid
PaidInfos == {ReceiptOf(t, 1000) : t \in TxRefs}

\* URL.revokeObjectURL(u): objectUrls[u] counts the releases of the u-th
\* object URL created
revokeObjectURL(urls, u) == [urls EXCEPT ![u] = @ + 1]

\* the cleanup the last effect run returned, if any:
\* if (receiptPngUrl) URL.revokeObjectURL(receiptPngUrl), with the
\* receiptPngUrl of the render that created the effect
RunCleanup(urls, captured) ==
  IF captured > NoUrl THEN revokeObjectURL(urls, captured) ELSE urls

EffectSkipsUnpaid(p, building) == p = NoReceipt

\* if (!paid || buildingRef.current) return
EffectSkips(p, building) == p = NoReceipt \/ building

\* the child calls the onPaid closure: setIsSuccess(true), setPaid(info);
\* React commits the update and, paid being a new object, runs the receipt
\* effect: the cleanup of its previous run first, then its body
OnPaid ==
  /\ heroMounted
  /\ paidEvents < MaxPaidEvents
  /\ \E info \in PaidInfos :
       /\ isSuccess' = TRUE
       /\ paid' = info
       /\ paidEvents' = paidEvents + 1
       /\ objectUrls' = RunCleanup(objectUrls, effectCleanup)
       /\ IF EffectSkips(info, buildingRef)
          THEN /\ effectCleanup' = NoCleanup
               /\ UNCHANGED <<buildingRef, receiptPreviewUrl, rasterJobs>>
          ELSE /\ buildingRef' = TRUE
               /\ receiptPreviewUrl' = info.tx
               /\ rasterJobs' = rasterJobs \cup {paidEvents + 1}
               /\ effectCleanup' = receiptPngUrl
  /\ UNCHANGED <<propVars, formVars, netVars, pollParams, pollVars, pollLog,
                 callVars, heroMounted, receiptPngUrl, exported>>

\* a guard that is cleared only when the rasterization succeeded
GuardAfterSettleOnSuccess(ok) == ~ok

\* .finally(() => { buildingRef.current = false; }) runs whether the
\* rasterization succeeded or not
GuardAfterSettle(ok) == FALSE

\* svgToPngBlob resolves: .then creates the object URL and sets
\* receiptPngUrl (a state update of an unmounted Hero is dropped), .finally
\* clears the guard
RasterSucceeds ==
  /\ \E j \in rasterJobs : rasterJobs' = rasterJobs \ {j}
  /\ objectUrls' = Append(objectUrls, 0)
  /\ receiptPngUrl' = IF heroMounted THEN Len(objectUrls) + 1 ELSE receiptPngUrl
  /\ buildingRef' = GuardAfterSettle(TRUE)
  /\ UNCHANGED <<propVars, formVars, netVars, pollParams, pollVars, pollLog,
                 heroVars, callVars, heroMounted, receiptPreviewUrl,
                 effectCleanup, exported, paidEvents>>

\* svgToPngBlob rejects (img.onerror): there is no .catch, .finally clears
\* the guard
RasterFails ==
  /\ \E j \in rasterJobs : rasterJobs' = rasterJobs \ {j}
  /\ buildingRef' = GuardAfterSettle(FALSE)
  /\ UNCHANGED <<propVars, formVars, netVars, pollParams, pollVars, pollLog,
                 heroVars, callVars, heroMounted, receiptPreviewUrl,
                 receiptPngUrl, effectCleanup, objectUrls, exported,
                 paidEvents>>

\* Hero unmounts: React runs the cleanup of the last effect run
Unmount ==
  /\ heroMounted
  /\ heroMounted' = FALSE
  /\ objectUrls' = RunCleanup(objectUrls, effectCleanup)
  /\ effectCleanup' = NoCleanup
  /\ UNCHANGED <<propVars, formVars, netVars, pollParams, pollVars, pollLog,
                 heroVars, callVars, receiptPreviewUrl, receiptPngUrl,
                 buildingRef, rasterJobs, exported, paidEvents>>

HasRasterAlways(url) == TRUE

\* !receiptPngUrl is false: the test of both handlers and of the disabled
\* attribute of both buttons
HasRaster(url) == url # NoUrl

\* what a handler does with the raster URL: share it as a file or, failing
\* that, download it
ExportReceipt(how) ==
  /\ heroMounted /\ isSuccess
  /\ Len(exported) < MaxExports
  /\ IF ~HasRaster(receiptPngUrl)
     THEN UNCHANGED exported
     ELSE exported' = Append(exported, [how |-> how, url |-> receiptPngUrl])
  /\ UNCHANGED <<propVars, formVars, netVars, pollParams, pollVars, pollLog,
                 heroVars, callVars, heroMounted, receiptPreviewUrl,
                 receiptPngUrl, buildingRef, rasterJobs, effectCleanup,
                 objectUrls, paidEvents>>

handleShareReceipt == ExportReceipt("share")

handleDownloadReceipt == ExportReceipt("download")

ReceiptInit == Quiescent /\ NoCall

ReceiptNext ==
  \/ OnPaid
  \/ RasterSucceeds
  \/ RasterFails
  \/ Unmount
  \/ handleShareReceipt
  \/ handleDownloadReceipt

ReceiptSpec == ReceiptInit /\ [][ReceiptNext]_vars

\* Hero when every rasterization settles: the image either loads or fails
\* to load, and canvas.toBlob calls back
ReceiptLiveSpec ==
  /\ ReceiptInit
  /\ [][ReceiptNext]_vars
  /\ WF_vars(RasterSucceeds \/ RasterFails)

\* ------------------------------------------------------------------------
\* Properties
\* ------------------------------------------------------------------------
PollRunning == pollPc \in {"head", "fetch", "sleep", "returned"}

\* C1: success is declared (isSuccess becomes true through onSuccessChange)
\* only by the step of submitAccount that follows a poll which returned
\* "paid"; not on acceptance by the gateway, not on "failed" or "timeout",
\* not on a rejected submission.
C1_SuccessOnlyAfterPaid ==
  [][(~isSuccess /\ isSuccess') =>
       (formPc = "polling" /\ pollPc = "returned" /\ pollResult = "paid")]_vars

C1_Witness == isSuccess /\ pollResult = "paid" /\ toast = "confirmed"

\* C2: all /api/pay requests of a session carry the same tx, the session's
\* reference, also when the session retried.
C2_SameTxOnEveryRequest ==
  \A i \in 1..Len(payRequests) :
    /\ payRequests[i].tx = txRef
    /\ payRequests[i].tx = payRequests[1].tx

\* a second request issued after a poll that timed out
C2_Witness ==
  /\ Len(payRequests) >= 2
  /\ formPc = "pay"
  /\ pollResult = "timeout"

\* C3: at most one /api/pay request is in flight, none while a poll runs,
\* and while loading or waiting no request is issued and no input changes.
C3_InFlightInv ==
  /\ payInFlight <= 1
  /\ ~(payInFlight >= 1 /\ PollRunning)
  /\ PollRunning => waiting /\ loading

C3_BusyStep ==
  (loading \/ waiting) =>
    /\ payRequests' = payRequests
    /\ verifyRequests' = verifyRequests
    /\ amount' = amount
    /\ phone' = phone
    /\ (formPc \in {"pay", "polling"} => accountName' = accountName)

\* C3: in every state at most one /api/pay request is in flight and none
\* while a poll runs, and every step taken while loading or waiting leaves
\* the requests issued and the inputs as they are.
C3_SingleSubmission == [](C3_InFlightInv) /\ [][C3_BusyStep]_vars

C3_Witness ==
  /\ waiting /\ loading
  /\ pollPc = "fetch"
  /\ Len(payRequests) = 1
  /\ payInFlight = 0

\* C4: an answer of /api/pay that is non-OK, or whose munopay.status is not
\* "success", ends the attempt with an error toast in the account step:
\* loading false, waiting never true, no poll started, and amount, phone,
\* account name and reference untouched.
C4_Refused(r) ==
  \/ r.kind = "nonok"
  \/ r.kind = "badjson"
  \/ r.kind = "ok" /\ r.status \notin {"success", "SUCCESS"}

C4_RejectedStep ==
  (payInFlight' < payInFlight /\ C4_Refused(lastPay')) =>
    /\ toast' = "pay-error"
    /\ step = "account" /\ step' = "account"
    /\ formPc' = "idle"
    /\ loading' = FALSE
    /\ waiting = FALSE /\ waiting' = FALSE
    /\ pollPc' = pollPc
    /\ statusRequests' = statusRequests
    /\ <<amount, phone, accountName, txRef>>' = <<amount, phone, accountName, txRef>>

\* C4: every step that consumes a refused answer of /api/pay ends in the
\* account step with an error toast, loading and waiting false, the poller
\* and the form fields untouched.
C4_RejectionReturnsToAccount == [][C4_RejectedStep]_vars

C4_Witness ==
  /\ lastPay.kind = "ok" /\ lastPay.status = "failed"
  /\ formPc = "idle"
  /\ toast = "pay-error"
  /\ step = "account"
  /\ ~loading /\ ~waiting

\* C5: with a precondition missing (payer phone not normalizable, amount
\* below minAmount, blank account name, empty payment key, recipient phone
\* absent or not normalizable) submitAccount issues no request and leaves
\* step, loading and waiting as they are.
C5_Preconditions ==
  /\ normalizeUgMobile(phone) # Null
  /\ amount >= minAmount
  /\ Trim(accountName) # <<>>
  /\ gutokey # ""
  /\ recipientMobile # Null
  /\ normalizeUgMobile(recipientMobile) # Null

C5_InvalidStep ==
  (step = "account" /\ formPc = "idle" /\ ~C5_Preconditions) =>
    /\ payRequests' = payRequests
    /\ payInFlight' = payInFlight
    /\ step' = step
    /\ loading' = loading
    /\ waiting' = waiting
    /\ formPc' = formPc

\* C5: no step taken from the idle account step with a precondition missing
\* issues a request or changes step, loading or waiting.
C5_NoRequestWithoutPreconditions == [][C5_InvalidStep]_vars

C5_Witness ==
  /\ toast \in {"gutokey-missing", "recipient-missing", "name-missing", "amount-min"}
  /\ ~C5_Preconditions
  /\ step = "account"
  /\ payRequests = <<>>
  /\ ~loading

\* C6: every /api/pay request carries an amount within [minAmount, maxAmount].
C6_AmountWithinBounds ==
  \A i \in 1..Len(payRequests) :
    payRequests[i].amount >= minAmount /\ payRequests[i].amount <= maxAmount

\* C7: once submitAccount has finished after a poll that returned "paid",
\* Hero's paid record is set.
C7_PaidSetsReceipt ==
  (pollResult = "paid" /\ formPc = "idle") => paid # NoReceipt

\* C9: the poller returns "paid" exactly when a tick is "paid", and that tick
\* is the last one: one request and one tick per iteration, one sleep after
\* every tick but the last, no terminal status among the earlier ticks.
C9_Terminal == {"paid", "failed", "cancelled", "reversed", "error"}

\* C9: a returned "paid" comes with n+1 ticks, n sleeps and n+1 requests,
\* "paid" being the last tick; and a "paid" tick is always the last.
C9_PaidAsSoonAsRead ==
  /\ (pollPc = "returned" /\ pollResult = "paid") =>
       /\ tickCount >= 1
       /\ Len(sleeps) = tickCount - 1
       /\ statusRequests = tickCount
       /\ tickCount <= MaxTicks =>
            /\ Len(ticks) = tickCount
            /\ ticks[tickCount] = "paid"
            /\ \A i \in 1..(tickCount - 1) : ticks[i] \notin C9_Terminal
  /\ \A i \in 1..Len(ticks) :
       ticks[i] = "paid" =>
         /\ i = tickCount
         /\ pollPc = "returned"
         /\ pollResult = "paid"

C9_Witness ==
  /\ pollPc = "returned"
  /\ pollResult = "paid"
  /\ ticks = <<"pending", "pending", "paid">>
  /\ Len(sleeps) = 2

\* C10: a tick of failed, cancelled, reversed or error is the last act of
\* the poller: it returns "failed" at once, with no sleep and no request
\* after that tick.
C10_FailedAtOnce ==
  \A i \in 1..Len(ticks) :
    ticks[i] \in {"failed", "cancelled", "reversed", "error"} =>
      /\ i = tickCount
      /\ pollPc = "returned"
      /\ pollResult = "failed"
      /\ Len(sleeps) = tickCount - 1
      /\ statusRequests = tickCount

C10_Witness ==
  /\ ticks = <<"reversed">>
  /\ pollPc = "returned"
  /\ pollResult = "failed"
  /\ sleeps = <<>>
  /\ statusRequests = 1

\* C11: a status request answered with HTTP 404 is delivered as the tick
\* "pending"; the loop goes on to its sleep after it and the tick never makes
\* the poller return ("paid" or "failed"). For the answers 404, 404,
\* approved, paid the ticks are pending, pending, approved, paid and the
\* result is "paid".
C11_NotFoundIsPending ==
  /\ \A i \in notFoundTicks :
       /\ i <= Len(ticks) /\ ticks[i] = "pending"
       /\ pollPc = "sleep" \/ Len(sleeps) >= i
       /\ i = tickCount => pollResult \notin {"paid", "failed"}
  /\ ( /\ tickCount = 4 /\ Len(ticks) = 4
       /\ notFoundTicks = {1, 2}
       /\ ticks[3] = "approved" /\ ticks[4] = "paid" )
     => (ticks = <<"pending", "pending", "approved", "paid">> /\ pollResult = "paid")

C11_Witness ==
  /\ notFoundTicks = {1, 2}
  /\ ticks = <<"pending", "pending", "approved", "paid">>
  /\ pollPc = "returned" /\ pollResult = "paid"

\* C12: a transient read (a non-OK answer other than 404, a thrown request,
\* an unparseable body, a missing or non-string status field, a status
\* string outside the terminal sets) delivers its tick and leaves the loop
\* running: the poller goes to its sleep and returns nothing, in particular
\* not "failed"; a read with no status ticks undefined and leaves the
\* status the Form displays as it was.
C12_NoStatusReads ==
  { Http(500), Thrown, BadJson,
    Body(Absent, Absent, Absent, Absent),
    Body(Absent, Absent, Absent, NonString) }

C12_TransientReads == C12_NoStatusReads \cup {Body(Absent, Absent, Absent, "processing")}

C12_TransientStep ==
  \A r \in C12_TransientReads, d \in Latencies :
    PollFetchWith(r, d) =>
      /\ tickCount' = tickCount + 1
      /\ pollPc' = "sleep"
      /\ pollResult' = pollResult
      /\ r \in C12_NoStatusReads => (loopStatus' = Undefined /\ txStatus' = txStatus)

C12_TransientKeepsPolling == [][C12_TransientStep]_vars

\* the Form shows "approved" and sleeps after a read that gave no status
C12_Witness ==
  /\ caller = "Form" /\ waiting
  /\ pollPc = "sleep"
  /\ loopStatus = Undefined
  /\ txStatus = "approved"

\* C13: once the cancel signal has been set, onTick is not invoked again,
\* wherever the poller was when the signal was set (request in flight, sleep,
\* before the first iteration).
C13_NoTickAfterCancel == [][aborted => tickCount' = tickCount]_vars

\* C14: onTick is not invoked once the time elapsed since the start has
\* reached timeoutMs, also for a request issued before the deadline that
\* settles after it.
C14_NoTickAfterDeadline == [][tickCount' > tickCount => elapsed' < timeoutMs]_vars

\* C15: pollUntilPaid resolves even when a status request never completes
\* (its result then being "timeout"): in every run of the poller, whether or
\* not the endpoint answers, the call eventually returns.
C15_ResolvesWithoutAnswer == <>(pollPc = "returned")

\* C16: the poller has at most one status request in flight and delivers
\* exactly one tick for each request before it issues the next one, so the
\* ticks come in the order of the requests; a request is only issued when
\* every earlier one has had its tick, and no tick is delivered once
\* pollUntilPaid has returned.
C16_OneInFlight ==
  /\ statusRequests - tickCount = IF pollPc = "fetch" THEN 1 ELSE 0
  /\ Len(ticks) = IF tickCount < MaxTicks THEN tickCount ELSE MaxTicks

C16_Step ==
  /\ statusRequests' # statusRequests =>
       (statusRequests = tickCount /\ statusRequests' = statusRequests + 1)
  /\ tickCount' # tickCount =>
       (pollPc = "fetch" /\ tickCount' = statusRequests /\ statusRequests' = statusRequests)
  /\ pollPc = "returned" => tickCount' = tickCount

C16_TicksInIssuanceOrder == []C16_OneInFlight /\ [][C16_Step]_vars

C16_Witness ==
  /\ pollPc = "returned"
  /\ statusRequests = 3
  /\ tickCount = 3
  /\ ticks = <<Undefined, "pending", "paid">>

\* C17: outside fixed-amount mode submitAmount moves the form from the
\* amount step to the phone step exactly when minAmount <= amount <=
\* maxAmount (not for 0, a negative amount or maxAmount + 1; for minAmount it
\* does); when it does not advance, the step and the rest of the state stay
\* as they were and only the error toast is shown.
C17_InRange(a) == minAmount <= a /\ a <= maxAmount

C17_Step ==
  (FormMounted /\ step = "amount" /\ ~fixedAmountMode /\ amount' = amount) =>
    /\ step' = IF C17_InRange(amount) THEN "phone" ELSE "amount"
    /\ toast' = IF C17_InRange(amount) THEN toast ELSE "amount-range"
    /\ UNCHANGED <<propVars, txRef, amount, phone, accountName, loading, waiting,
                   txStatus, formPc, netVars, pollParams, pollVars, pollLog,
                   heroVars>>

C17_AdvancesIffInRange == [][C17_Step]_vars

C17_Witness ==
  /\ ~fixedAmountMode
  /\ step = "phone"
  /\ amount = minAmount
  /\ toast = "amount-range"

\* C18: in a fixed-amount session (a positive initialAmount and no request
\* to start on the amount step) the amount step is skipped: the form starts
\* on the phone step and is never on the amount step, and submitAmount, were
\* it invoked, sets the step to "phone" whatever the amount is.
C18_FixedSession == initialAmount > 0 /\ ~HeroStartOnAmount(initialAmount)

C18_Skipped ==
  /\ C18_FixedSession => (step # "amount" /\ amount = initialAmount)
  /\ \A a \in AmountInputs \cup InitialAmounts, current \in {"amount", "phone", "account"} :
       StepAfterSubmitAmount(TRUE, a, current) = "phone"

C18_Step == (C18_FixedSession /\ step = "amount" /\ amount' = amount) => step' = "phone"

C18_AmountStepSkipped == []C18_Skipped /\ [][C18_Step]_vars

\* a fixed-amount session that went from the phone step to the account step
C18_Witness ==
  /\ C18_FixedSession
  /\ fixedAmountMode
  /\ step = "account"
  /\ amount = initialAmount
  /\ payRequests = <<>>

\* C19: submitPhone advances only for a phone the normalizer accepts. For a
\* phone it rejects the step stays "phone" and no lookup is issued; for one
\* it accepts exactly one lookup is issued and, whatever the lookup answers,
\* the step becomes "account" with the account name set to the name found,
\* or to the empty string when none was found.
C19_NameOf(r) ==
  IF r.kind = "ok" /\ r.name # Null /\ r.name # <<>> THEN r.name ELSE <<>>

C19_Lookups ==
  /\ (step = "phone" /\ formPc = "idle") => verifyRequests = 0
  /\ (step = "phone" /\ formPc # "idle") =>
       (formPc = "verify" /\ verifyRequests = 1 /\ normalizeUgMobile(phone) # Null)
  /\ step = "account" => (verifyRequests = 1 /\ normalizeUgMobile(phone) # Null)

C19_Step ==
  /\ (FormMounted /\ step = "phone" /\ formPc = "idle" /\ phone' = phone) =>
       /\ step' = "phone"
       /\ IF normalizeUgMobile(phone) = Null
          THEN verifyRequests' = verifyRequests /\ formPc' = "idle"
          ELSE verifyRequests' = verifyRequests + 1 /\ formPc' = "verify"
  /\ \A r \in VerifyResponses :
       submitPhoneResumeWith(r) =>
         /\ step' = "account"
         /\ accountName' = C19_NameOf(r)
         /\ verifyRequests' = verifyRequests

C19_PhoneStepAdvance == []C19_Lookups /\ [][C19_Step]_vars

\* the lookup found no name and the form is on the account step all the same
C19_Witness ==
  /\ step = "account"
  /\ verifyRequests = 1
  /\ accountName = <<>>
  /\ toast = "no-name"
  /\ payRequests = <<>>

\* C20: normalizeUgMobile maps every valid local-form input 07dddddddd to
\* 2567dddddddd and returns null for every invalid input: wrong length, wrong
\* digit after the 0, or an input containing letters.
C20_Letters == {"a", "x"}

C20_IsLocalForm(p) == Len(p) = 10 /\ AllDigits(p) /\ p[1] = "0" /\ p[2] = "7"

C20_Canonical(p) == <<"2", "5", "6">> \o Tail(p)

C20_WrongLength(p) == AllDigits(p) /\ Len(p) # 10 /\ (Len(p) = 0 \/ p[1] = "0")

C20_WrongLead(p) == AllDigits(p) /\ Len(p) = 10 /\ p[1] = "0" /\ p[2] # "7"

C20_HasLetter(p) == \E i \in 1..Len(p) : p[i] \in C20_Letters

C20_LettersGiveNull ==
  normResult # NotCalled =>
    /\ C20_IsLocalForm(normInput) => normResult = C20_Canonical(normInput)
    /\ ( \/ C20_WrongLength(normInput)
         \/ C20_WrongLead(normInput)
         \/ C20_HasLetter(normInput) ) => normResult = Null

\* C20 (amended): normalizeUgMobile maps every valid local-form input
\* 07dddddddd to 2567dddddddd and returns null for an input of the wrong
\* length or with the wrong digit after the 0; letters, like every character
\* that is neither a digit nor a plus sign, are removed before matching, so
\* an input with letters gives null only when what remains is not a valid
\* number, and otherwise the canonical number of what remains.
C20_IsKept(c) == c \in Digits \cup {"+"}

C20_Rest(p) == SelectSeq(p, C20_IsKept)

C20_LocalFormNormalized ==
  normResult # NotCalled =>
    LET d == C20_Rest(normInput)
    IN /\ C20_IsLocalForm(d) => normResult = C20_Canonical(d)
       /\ (C20_WrongLength(d) \/ C20_WrongLead(d)) => normResult = Null

\* a local-form number typed with a letter after it came back canonical
C20_Witness ==
  /\ normInput = <<"0", "7", "5", "0", "5", "0", "5", "0", "5", "0", "a">>
  /\ normResult = <<"2", "5", "6", "7", "5", "0", "5", "0", "5", "0", "5", "0">>

\* C21: for every 9-digit subscriber number s that starts with 7 the three
\* notations "0"+s, "256"+s and "+256"+s all normalize to "256"+s; every
\* non-null result is 12 digits without a plus sign; and normalizing a
\* non-null result again returns that same result.
C21_SubscriberOf(p) ==
  IF Len(p) = 10 /\ p[1] = "0" THEN Tail(p)
  ELSE IF Len(p) = 12 /\ SubSeq(p, 1, 3) = <<"2", "5", "6">> THEN SubSeq(p, 4, 12)
  ELSE IF Len(p) = 13 /\ SubSeq(p, 1, 4) = <<"+", "2", "5", "6">> THEN SubSeq(p, 5, 13)
  ELSE Null

C21_IsSubscriber(n) == n # Null /\ Len(n) = 9 /\ AllDigits(n) /\ n[1] = "7"

C21_Canonical ==
  normResult # NotCalled =>
    /\ C21_IsSubscriber(C21_SubscriberOf(normInput)) =>
         normResult = <<"2", "5", "6">> \o C21_SubscriberOf(normInput)
    /\ normResult # Null => (Len(normResult) = 12 /\ AllDigits(normResult))

C21_Again ==
  (normResult # NotCalled /\ normResult # Null /\ normInput' = normResult) =>
    normResult' = normResult

C22_HintOf(msisdn) ==
  IF msisdn = Null THEN "Unknown"
  ELSE LET d == SubSeq(msisdn, 4, 5)
       IN IF d \in {<<"7", "6">>, <<"7", "7">>, <<"7", "8">>} THEN "MTN"
          ELSE IF d \in {<<"7", "0">>, <<"7", "5">>} THEN "Airtel"
          ELSE "Unknown"

C22_HintFromDigitsAfter256 ==
  carrierResult # NotCalledYet => carrierResult = C22_HintOf(normResult)

\* C23: one invocation of fetchGutoName sends at most one /api/verify
\* request, and none when its argument does not normalize; it always returns
\* a value: null on a non-OK answer, on a network or parse failure and on a
\* body without raw.contact.name, and otherwise that name.
C23_NameOf(r) == IF r.kind = "ok" THEN r.name ELSE Null

C23_AtMostOne ==
  /\ verifyRequests <= 1
  /\ fetchedName = NotCalled => verifyRequests = 0
  /\ fetchedName = Pending => verifyRequests = 1

C23_Step ==
  /\ (fetchedName = NotCalled /\ fetchedName' # NotCalled) =>
       IF normalizeUgMobile(normInput) = Null
       THEN fetchedName' = Null /\ verifyRequests' = verifyRequests
       ELSE fetchedName' = Pending /\ verifyRequests' = verifyRequests + 1
  /\ \A r \in VerifyResponses :
       FetchGutoNameReturnsWith(r) =>
         /\ fetchedName' = C23_NameOf(r)
         /\ verifyRequests' = verifyRequests

C23_SingleLookup == []C23_AtMostOne /\ [][C23_Step]_vars

\* a call with a number that does not normalize returned null unasked
C23_Witness ==
  /\ normalizeUgMobile(normInput) = Null
  /\ Len(normInput) = 10
  /\ fetchedName = Null
  /\ verifyRequests = 0

\* C24: buildPaylink(handle, amount) is https://pay.guto.app/@ followed by
\* the handle without one leading @, and it carries the query parameter a,
\* holding the amount, exactly when an amount was given and is positive; a
\* handle written with and without the leading @ gives the same link, and a
\* repeated call with the same arguments returns the same link.
C24_Prefix(str, n) == SubSeq(str, 1, Min(n, Len(str)))

C24_After(str, n) == SubSeq(str, n + 1, Len(str))

C24_Bare(handle) ==
  IF Len(handle) > 0 /\ Head(handle) = "@"
  THEN SubSeq(handle, 2, Len(handle)) ELSE handle

C24_Positive(amt) == \E n \in amt : n > 0

RECURSIVE C24_Value(_)
C24_Value(digits) ==
  IF digits = <<>> THEN 0
  ELSE 10 * C24_Value(SubSeq(digits, 1, Len(digits) - 1))
         + (CHOOSE d \in 0..9 : DigitChars[d + 1] = digits[Len(digits)])

C24_Shape ==
  linkResult # NotCalled =>
    LET bare == C24_Bare(linkHandle)
        rest == C24_After(linkResult, Len(PayBase))
        query == C24_After(rest, Len(bare))
    IN /\ C24_Prefix(linkResult, Len(PayBase)) = PayBase
       /\ C24_Prefix(rest, Len(bare)) = bare
       /\ IF C24_Positive(linkAmount)
          THEN /\ C24_Prefix(query, 3) = <<"?", "a", "=">>
               /\ \A i \in 4..Len(query) : query[i] \in Digits
               /\ linkAmount = {C24_Value(C24_After(query, 3))}
          ELSE query = <<>>
       /\ linkResult = buildPaylink(<<"@">> \o bare, linkAmount)
       /\ (bare = <<>> \/ Head(bare) # "@") =>
            linkResult = buildPaylink(bare, linkAmount)

C24_Repeat == linkResult # NotCalled => linkResult' = linkResult

C24_CanonicalPaylink == []C24_Shape /\ [][C24_Repeat]_vars

\* the link of @h. with the amount 1500 was built twice
C24_Witness ==
  /\ linkHandle = <<"@", "h", ".">>
  /\ linkAmount = {1500}
  /\ linkCalls = 2
  /\ linkResult = PayBase \o <<"h", ".", "?", "a", "=", "1", "5", "0", "0">>

\* C28: truncateRef with the limit 15 returns a reference of at most 15
\* characters unchanged and a longer one as its first 15 characters followed
\* by one ellipsis character (20 characters give 15 and the ellipsis, 10
\* characters come back unchanged); a null or empty reference gives the
\* empty string.
C28_TruncatedAtLimit ==
  refResult # NotCalled =>
    IF refInput = Null \/ refInput = <<>> THEN refResult = <<>>
    ELSE IF Len(refInput) <= 15 THEN refResult = refInput
    ELSE /\ Len(refResult) = 16
         /\ \A i \in 1..15 : refResult[i] = refInput[i]
         /\ refResult[16] = Ellipsis

\* a reference of 20 characters was cut to 15 characters and the ellipsis
C28_Witness ==
  /\ refInput # Null
  /\ Len(refInput) = 20
  /\ refResult # NotCalled
  /\ Len(refResult) = 16
  /\ refResult[16] = Ellipsis

\* C25: at most one rasterization of the receipt is in flight at any time:
\* when the receipt effect fires again (a new paid record arrives) while the
\* rasterization an earlier firing started has neither finished nor failed,
\* the later firing starts no rasterization.
C25_OneInFlight == Cardinality(rasterJobs) <= 1

C25_Step ==
  (paidEvents' = paidEvents + 1 /\ rasterJobs # {}) => rasterJobs' = rasterJobs

C25_SingleRasterization == []C25_OneInFlight /\ [][C25_Step]_vars

\* the effect fired a second time while the first rasterization was still
\* in flight, and that one is the only rasterization
C25_Witness ==
  /\ paidEvents = 2
  /\ rasterJobs = {1}
  /\ buildingRef
  /\ objectUrls = <<>>

\* C26: every object URL created for a receipt is released exactly once,
\* when a newer render output supersedes it or when Hero unmounts: no object
\* URL is released twice, an object URL that is no longer the current
\* receiptPngUrl has been released, and after the unmount, once no
\* rasterization is in flight, every object URL created has been released.
C26_ReleasedExactlyOnce ==
  /\ \A u \in 1..Len(objectUrls) : objectUrls[u] <= 1
  /\ \A u \in 1..Len(objectUrls) :
       (heroMounted /\ u # receiptPngUrl) => objectUrls[u] = 1
  /\ (~heroMounted /\ rasterJobs = {}) =>
       \A u \in 1..Len(objectUrls) : objectUrls[u] = 1

\* C27: the vector preview is set in the same step that starts a
\* rasterization and is never taken away afterwards, in particular not when
\* the rasterization fails; share and download are enabled only while a
\* raster URL exists, which requires a rasterization that succeeded, and a
\* handler called without a raster URL does nothing.
C27_PreviewWhileBuilding ==
  /\ rasterJobs # {} => receiptPreviewUrl # NoPreview
  /\ receiptPngUrl # NoUrl => receiptPngUrl \in 1..Len(objectUrls)
  /\ \A i \in 1..Len(exported) : exported[i].url \in 1..Len(objectUrls)

C27_Step ==
  /\ rasterJobs' # rasterJobs /\ rasterJobs' # {} /\ rasterJobs = {} =>
       receiptPreviewUrl' = paid'.tx
  /\ receiptPreviewUrl # NoPreview /\ rasterJobs' # rasterJobs /\ rasterJobs # {} =>
       receiptPreviewUrl' = receiptPreviewUrl
  /\ receiptPngUrl = NoUrl => exported' = exported
  /\ exported' # exported => exported' = Append(exported, exported'[Len(exported')])
                             /\ exported'[Len(exported')].url = receiptPngUrl

C27_PreviewSurvivesFailure == []C27_PreviewWhileBuilding /\ [][C27_Step]_vars

\* the rasterization failed: the preview is displayed, no raster URL exists
\* and nothing was shared or downloaded
C27_Witness ==
  /\ isSuccess
  /\ paidEvents = 1
  /\ receiptPreviewUrl = paid.tx
  /\ rasterJobs = {}
  /\ ~buildingRef
  /\ receiptPngUrl = NoUrl
  /\ objectUrls = <<>>
  /\ exported = <<>>
  /\ heroMounted

\* C29: every failure path of a submission leaves the form interactive:
\* when submitAccount ends with a validation error, a transport failure, a
\* gateway rejection, a poll result "failed" or a poll result "timeout",
\* loading and waiting are both false, so the inputs are enabled and the
\* submit handler no longer returns at its busy check.
C29_IdleIsInteractive ==
  (FormMounted /\ formPc = "idle" /\ step = "account") => ~loading /\ ~waiting

C29_Step ==
  /\ (formPc \in {"pay", "polling"} /\ formPc' = "idle" /\ ~isSuccess') =>
       /\ toast' \in {"pay-error", "failed", "timeout"}
       /\ toast' = "pay-error" <=> formPc = "pay"
       /\ toast' = "failed" <=> pollResult = "failed" /\ formPc = "polling"
       /\ ~loading' /\ ~waiting'
       /\ step' = "account"
  /\ (formPc = "idle" /\ step = "account" /\ ~HandlerBusy /\ FormMounted
        /\ ValidationError # "none" /\ toast' = ValidationError
        /\ payRequests' = payRequests) =>
       (~loading' /\ ~waiting' /\ formPc' = "idle")

C29_FailureLeavesFormInteractive == []C29_IdleIsInteractive /\ [][C29_Step]_vars

\* a poll that timed out has been reported and the form is interactive again
C29_Witness ==
  /\ toast = "timeout"
  /\ pollResult = "timeout"
  /\ formPc = "idle"
  /\ step = "account"
  /\ ~isSuccess
  /\ ~loading /\ ~waiting
  /\ Len(payRequests) = 1

\* C30: when intervalMs <= maxIntervalMs, the k-th sleep of a poll
\* (k = 0, 1, 2, ...) lasts min(intervalMs + 1000 k, maxIntervalMs)
\* milliseconds; with the defaults 3000 and 7000 the sleeps are 3000, 4000,
\* 5000, 6000, 7000, 7000, ...
C30_SleepSchedule ==
  /\ intervalMs <= maxIntervalMs =>
       \A k \in 0..(Len(sleeps) - 1) :
         sleeps[k + 1] = (IF intervalMs + 1000 * k < maxIntervalMs
                          THEN intervalMs + 1000 * k ELSE maxIntervalMs)
  /\ (intervalMs = 3000 /\ maxIntervalMs = 7000) =>
       \A k \in 1..Len(sleeps) :
         sleeps[k] = (IF k <= 5 THEN <<3000, 4000, 5000, 6000, 7000>>[k]
                      ELSE 7000)

\* a poll with interval 1000 and cap 2000 slept 1000, 2000 and 2000
C30_Witness ==
  /\ intervalMs = 1000
  /\ maxIntervalMs = 2000
  /\ sleeps = <<1000, 2000, 2000>>

\* C31: when every status request completes, pollUntilPaid returns, and it
\* returns one of "paid", "failed" and "timeout": "timeout" when the loop ends
\* at its head (deadline reached or cancelled), "paid" or "failed" only from
\* a status that was read; with timeoutMs <= 0 it returns "timeout" without
\* a request and without a tick.
C31_Result ==
  /\ pollPc = "returned" <=> pollResult \in {"paid", "failed", "timeout"}
  /\ (timeoutMs <= 0 /\ pollPc = "returned") =>
       (pollResult = "timeout" /\ statusRequests = 0 /\ tickCount = 0)
  /\ timeoutMs <= 0 => (statusRequests = 0 /\ tickCount = 0)

C31_Step ==
  /\ (pollPc = "head" /\ pollPc' = "returned") =>
       (pollResult' = "timeout" /\ (elapsed >= timeoutMs \/ aborted))
  /\ (pollPc = "head" /\ elapsed >= timeoutMs) => pollPc' # "fetch"
  /\ (pollPc = "fetch" /\ pollPc' = "returned") => pollResult' \in {"paid", "failed"}
  /\ pollPc = "returned" => (pollPc' = "returned" /\ pollResult' = pollResult)

C31_Terminates ==
  /\ <>(pollPc = "returned")
  /\ []C31_Result
  /\ [][C31_Step]_vars

\* a poll with a timeout of zero or less returned "timeout" at once
C31_Witness ==
  /\ timeoutMs <= 0
  /\ pollPc = "returned"
  /\ pollResult = "timeout"
  /\ statusRequests = 0
  /\ tickCount = 0

\* C32: the status the poller reads from a parsed body is the first field
\* that is present among data.api_status, transaction.api_status, api_status
\* and status, in lower case: an earlier field wins over a later one
\* (data.api_status = "pending" with status = "paid" reads as "pending"),
\* and "paid" in any letter case is the terminal paid status.
C32_Fields(r) == <<r.data, r.transaction, r.api, r.status>>

C32_First(r) ==
  LET present == {i \in 1..4 : C32_Fields(r)[i] # Absent}
  IN IF present = {} THEN Absent
     ELSE C32_Fields(r)[CHOOSE i \in present : \A j \in present : i <= j]

C32_Fold(str) == IF str \in {"paid", "PAID", "pAiD", "Paid"} THEN "paid" ELSE str

C32_FirstPresentWins ==
  (readResult # NotCalledYet /\ readBody.kind = "ok") =>
    LET f == C32_First(readBody)
    IN /\ IF f \in {Absent, NonString} THEN readResult = Undefined
          ELSE readResult = C32_Fold(f)
       /\ readVerdict = "paid" <=> (f \notin {Absent, NonString} /\ C32_Fold(f) = "paid")
       /\ (readBody.data = "pending" /\ readBody.status = "PAID") =>
            (readResult = "pending" /\ readVerdict = "continue")

\* data.api_status = "pending" next to status = "PAID" was read as pending
C32_Witness ==
  /\ readBody = Body("pending", Absent, Absent, "PAID")
  /\ readResult = "pending"
  /\ readVerdict = "continue"

\* C33: the normalizer matches what is left of its input after every
\* character that is not a digit or a leading plus sign has been removed,
\* a plus sign that is not in leading position included: when that rest is
\* +2567dddddddd, 2567dddddddd or 07dddddddd, the result is the canonical
\* number 2567dddddddd and not null.
C33_IsDigit(c) == c \in Digits

C33_IsDigitOrPlus(c) == c \in Digits \cup {"+"}

C33_Cleaned(p) ==
  LET kept == SelectSeq(p, C33_IsDigitOrPlus)
  IN IF kept # <<>> /\ Head(kept) = "+"
     THEN <<"+">> \o SelectSeq(Tail(kept), C33_IsDigit)
     ELSE SelectSeq(kept, C33_IsDigit)

C33_CanonicalOf(c) ==
  IF Len(c) = 13 /\ SubSeq(c, 1, 5) = <<"+", "2", "5", "6", "7">> THEN Tail(c)
  ELSE IF Len(c) = 12 /\ SubSeq(c, 1, 4) = <<"2", "5", "6", "7">> THEN c
  ELSE IF Len(c) = 10 /\ SubSeq(c, 1, 2) = <<"0", "7">> THEN <<"2", "5", "6">> \o Tail(c)
  ELSE Null

C33_StrippedThenMatched ==
  (normResult # NotCalled /\ normInput # Null) =>
    (C33_CanonicalOf(C33_Cleaned(normInput)) # Null =>
       normResult = C33_CanonicalOf(C33_Cleaned(normInput)))

\* C34: the build guard is set in the step that starts a rasterization and
\* is cleared when that rasterization settles, whether it succeeded or
\* failed: the guard is true exactly while a rasterization is in flight, it
\* does not stay true, and a firing of the receipt effect after a
\* rasterization has settled starts a new one.
C34_GuardTracksJob == buildingRef <=> rasterJobs # {}

C34_Step ==
  /\ (rasterJobs = {} /\ rasterJobs' # {}) => buildingRef'
  /\ (rasterJobs # {} /\ rasterJobs' = {}) => ~buildingRef'
  /\ (paidEvents' = paidEvents + 1 /\ rasterJobs = {}) =>
       (rasterJobs' = {paidEvents + 1} /\ buildingRef')

C34_GuardReleased ==
  /\ []C34_GuardTracksJob
  /\ [][C34_Step]_vars
  /\ (buildingRef ~> ~buildingRef)

\* after the first rasterization failed, the second firing of the effect
\* started a new one
C34_Witness ==
  /\ paidEvents = 2
  /\ rasterJobs = {2}
  /\ buildingRef
  /\ objectUrls = <<>>
  /\ receiptPngUrl = NoUrl

\* C35: in every state of the Form waiting implies loading: waiting becomes
\* true only inside a submission that has set loading and not yet reset it,
\* and whenever loading is reset waiting is false afterwards.
C35_WaitingImpliesLoading == waiting => loading

C35_Step ==
  /\ (~waiting /\ waiting') => (loading /\ loading' /\ formPc = "pay")
  /\ (loading /\ ~loading') => ~waiting'
  /\ (waiting /\ ~waiting') => formPc = "polling"

C35_WaitingInsideLoading == []C35_WaitingImpliesLoading /\ [][C35_Step]_vars

\* the gateway accepted the request and the Form waits for the confirmation
C35_Witness ==
  /\ waiting
  /\ loading
  /\ formPc = "polling"
  /\ pollPc = "sleep"
  /\ txStatus = "processing"

\* C36: the step of the Form only moves forward, amount -> phone -> account,
\* one step at a time and never back, and a submission that failed, timed
\* out or was rejected leaves the step at "account".
C36_Rank(st) == IF st = "amount" THEN 1 ELSE IF st = "phone" THEN 2 ELSE 3

C36_Step ==
  /\ C36_Rank(step') \in {C36_Rank(step), C36_Rank(step) + 1}
  /\ (formPc \in {"pay", "polling"} /\ formPc' = "idle") =>
       (step = "account" /\ step' = "account")

C36_StepOnlyForward ==
  /\ [](step \in {"amount", "phone", "account"})
  /\ [][C36_Step]_vars

\* a poll that reported a failed payment left the Form on the account step
C36_Witness ==
  /\ toast = "failed"
  /\ pollResult = "failed"
  /\ formPc = "idle"
  /\ step = "account"
  /\ ~isSuccess

\* C37: for all parameter values of pollUntilPaid every sleep between two
\* polls lasts at most maxIntervalMs, and the durations of successive sleeps
\* never decrease.
C37_SleepsCappedAndMonotone ==
  /\ \A k \in 1..Len(sleeps) : sleeps[k] <= maxIntervalMs
  /\ \A k \in 1..(Len(sleeps) - 1) : sleeps[k] <= sleeps[k + 1]

\* C38: when the cancel signal is set at the start of a loop iteration,
\* pollUntilPaid returns "timeout" in that iteration without a status request
\* and without a tick; a poll that was cancelled returns nothing but
\* "timeout", which is the value the Form reports as a timeout.
C38_CancelledIsTimeout ==
  (aborted /\ pollPc = "returned") => pollResult = "timeout"

C38_Step ==
  /\ (pollPc = "head" /\ aborted) =>
       /\ pollPc' = "returned"
       /\ pollResult' = "timeout"
       /\ statusRequests' = statusRequests
       /\ tickCount' = tickCount
       /\ ticks' = ticks
  /\ (aborted /\ pollPc' = "returned") => pollResult' = "timeout"

C38_CancelReturnsTimeout == []C38_CancelledIsTimeout /\ [][C38_Step]_vars

\* a poll cancelled during its first sleep returned "timeout" at the next
\* loop head, before the deadline, after one request and one tick
C38_Witness ==
  /\ aborted
  /\ pollPc = "returned"
  /\ pollResult = "timeout"
  /\ elapsed < timeoutMs
  /\ statusRequests = 1
  /\ tickCount = 1
  /\ Len(sleeps) = 1

====
